---- MODULE Spec2Model ----
(***************************************************************************)
(* Live weather dashboard: the Streamlit script app.py (get_weather,       *)
(* get_forecast, the fetch-and-render block) and the command-line script   *)
(* fetch_weather.py.                                                       *)
(*                                                                         *)
(* A JSON object is a function from its keys to its values, so that        *)
(* dict.get(k, default) is a test on DOMAIN.  A Python value that may be   *)
(* None is a sequence of length at most one: <<>> is None, <<v>> is v.     *)
(* A Python str that the code compares or sorts is the sequence of its     *)
(* character codes.                                                        *)
(***************************************************************************)
EXTENDS Integers, Sequences, FiniteSets, TLC

VARIABLES
    program,    \* which script runs: "app", "cli", or "forecast" (a direct call of get_forecast)
    pc,         \* position of the script
    API_KEY,    \* os.getenv("OPENWEATHER_API_KEY"): <<>> when unset, <<key>> otherwise
    city,       \* the city typed by the user
    tz,         \* offset of the process's local time zone from UTC, seconds
    days,       \* the day count passed to get_forecast
    wresp,      \* HTTP response of the current-conditions endpoint
    fresp,      \* HTTP response of the forecast endpoint
    weather,    \* <<>> or <<record returned by get_weather>>
    forecast,   \* <<>> or <<list returned by get_forecast>>
    exc,        \* the exception raised by the last fetch, "none" if none
    calls,      \* fetch operations called so far, in order
    requests,   \* HTTP requests issued so far, in order
    ui          \* what the script has shown

vars == <<program, pc, API_KEY, city, tz, days, wresp, fresp, weather, forecast,
          exc, calls, requests, ui>>

-----------------------------------------------------------------------------
(* Python values *)

None == <<>>

Some(v) == <<v>>

EmptyObj == <<>>

\* dict.get(k, default)
Get(obj, k, default) == IF k \in DOMAIN obj THEN obj[k] ELSE default

\* dict.get(k): None when the key is missing
GetOpt(obj, k) == IF k \in DOMAIN obj THEN Some(obj[k]) ELSE None

\* truth value of obj.get(k) when the value under k is a dict
TruthyObj(obj, k) == k \in DOMAIN obj /\ DOMAIN obj[k] # {}

\* truth value of obj.get(k) when the value under k is a list
TruthyList(obj, k) == k \in DOMAIN obj /\ Len(obj[k]) > 0

\* truth value of a str that may be None
TruthyStr(o) == o # None /\ o[1] # ""

\* truth value of an int that may be None
TruthyInt(o) == o # None /\ o[1] # 0

Restrict(f, ks) == [k \in ks |-> f[k]]

-----------------------------------------------------------------------------
(* datetime.fromtimestamp(ts) in the process's time zone, .date().isoformat(),
   .strftime("%I:%M %p") *)

SecondsPerDay == 86400

LocalSeconds(ts, offset) == ts + offset

\* proleptic Gregorian date <<year, month, day>> of a day number counted from 1970-01-01
CivilFromDays(n) ==
    LET z   == n + 719468
        era == z \div 146097
        doe == z - era * 146097
        yoe == (doe - doe \div 1460 + doe \div 36524 - doe \div 146096) \div 365
        doy == doe - (365 * yoe + yoe \div 4 - yoe \div 100)
        mp  == (5 * doy + 2) \div 153
        d   == doy - (153 * mp + 2) \div 5 + 1
        m   == IF mp < 10 THEN mp + 3 ELSE mp - 9
        y   == yoe + era * 400 + (IF m <= 2 THEN 1 ELSE 0)
    IN  <<y, m, d>>

DigitCode(n) == 48 + n

\* "YYYY-MM-DD" as character codes
IsoFormat(ymd) ==
    LET y == ymd[1]
        m == ymd[2]
        d == ymd[3]
    IN  << DigitCode(y \div 1000), DigitCode((y \div 100) % 10),
           DigitCode((y \div 10) % 10), DigitCode(y % 10), 45,
           DigitCode(m \div 10), DigitCode(m % 10), 45,
           DigitCode(d \div 10), DigitCode(d % 10) >>

\* datetime.fromtimestamp(ts).date().isoformat()
DateOf(ts, offset) == IsoFormat(CivilFromDays(LocalSeconds(ts, offset) \div SecondsPerDay))

\* Python's < on str
StrLess(a, b) ==
    \/ \E i \in 1..Len(a) :
          /\ i <= Len(b)
          /\ a[i] < b[i]
          /\ \A j \in 1..(i - 1) : a[j] = b[j]
    \/ /\ Len(a) < Len(b)
       /\ \A j \in 1..Len(a) : a[j] = b[j]

RECURSIVE sorted(_)
\* sorted(keys) of a set of str
sorted(S) ==
    IF S = {} THEN <<>>
    ELSE LET lo == CHOOSE x \in S : \A y \in S \ {x} : StrLess(x, y)
         IN  <<lo>> \o sorted(S \ {lo})

Pad2(n) == IF n < 10 THEN "0" \o ToString(n) ELSE ToString(n)

\* datetime.fromtimestamp(ts).strftime("%I:%M %p")
FormatTime(ts, offset) ==
    LET s   == LocalSeconds(ts, offset) % SecondsPerDay
        h   == s \div 3600
        mi  == (s % 3600) \div 60
        h12 == IF h % 12 = 0 THEN 12 ELSE h % 12
    IN  Pad2(h12) \o ":" \o Pad2(mi) \o " " \o (IF h < 12 THEN "AM" ELSE "PM")

-----------------------------------------------------------------------------
(* The HTTP call shared by the fetch operations: requests.get(url, params,
   timeout=10), resp.raise_for_status(), resp.json() *)

\* a response that never arrived (connection failure, or the 10 s timeout)
NoResponse == [outcome |-> "timeout", status |-> 0, body |-> "text", data |-> EmptyObj]

HttpResponse(status, body, data) ==
    [outcome |-> "response", status |-> status, body |-> body, data |-> data]

\* the exception of requests.get / raise_for_status / json, "none" when data is parsed
HttpOutcome(resp) ==
    IF resp.outcome = "timeout" THEN "ConnectionError"
    ELSE IF resp.status >= 400 /\ resp.status < 600 THEN "HTTPError"
    ELSE IF resp.body = "text" THEN "JSONDecodeError"
    ELSE "none"

\* the exceptions that derive from requests.exceptions.RequestException
IsRequestException(e) == e \in {"ConnectionError", "HTTPError", "JSONDecodeError"}

Raise(e) == [exc |-> e, value |-> None]

Return(v) == [exc |-> "none", value |-> Some(v)]

-----------------------------------------------------------------------------
(* app.py: get_weather *)

\* rain_1h with the default of .get("1h") forgotten
rain_1h_no_default(data) ==
    IF "rain" \in DOMAIN data THEN GetOpt(data["rain"], "1h") ELSE Some(0)

\* line 49: data.get("rain", {}).get("1h", 0) if data.get("rain") else 0
rain_1h(data) ==
    IF TruthyObj(data, "rain") THEN Some(Get(data["rain"], "1h", 0)) ELSE Some(0)

get_weather(resp) ==
    IF HttpOutcome(resp) # "none" THEN Raise(HttpOutcome(resp))
    ELSE IF resp.body # "object" THEN Raise("AttributeError")
    ELSE
        LET data     == resp.data
            sys      == Get(data, "sys", EmptyObj)
            main     == Get(data, "main", EmptyObj)
            weathers == Get(data, "weather", <<EmptyObj>>)
        IN  IF Len(weathers) = 0 THEN Raise("IndexError")
            ELSE
                LET weather0 == weathers[1]
                IN  Return([ city        |-> GetOpt(data, "name"),
                             country     |-> GetOpt(sys, "country"),
                             temp        |-> GetOpt(main, "temp"),
                             feels_like  |-> GetOpt(main, "feels_like"),
                             humidity    |-> GetOpt(main, "humidity"),
                             pressure    |-> GetOpt(main, "pressure"),
                             description |-> GetOpt(weather0, "description"),
                             icon        |-> GetOpt(weather0, "icon"),
                             wind_speed  |-> GetOpt(Get(data, "wind", EmptyObj), "speed"),
                             clouds      |-> GetOpt(Get(data, "clouds", EmptyObj), "all"),
                             rain_1h     |-> rain_1h(data),
                             sunrise     |-> GetOpt(sys, "sunrise"),
                             sunset      |-> GetOpt(sys, "sunset"),
                             dt          |-> GetOpt(data, "dt") ])

-----------------------------------------------------------------------------
(* fetch_weather.py: get_weather *)

cli_get_weather(key, resp) ==
    IF ~TruthyStr(key) THEN Raise("RuntimeError")
    ELSE IF HttpOutcome(resp) # "none" THEN Raise(HttpOutcome(resp))
    ELSE IF resp.body # "object" THEN Raise("AttributeError")
    ELSE
        LET data == resp.data
        IN  IF "main" \notin DOMAIN data \/ "temp" \notin DOMAIN data["main"]
                THEN Raise("KeyError")
            ELSE IF "weather" \notin DOMAIN data THEN Raise("KeyError")
            ELSE IF Len(data["weather"]) = 0 THEN Raise("IndexError")
            ELSE IF \/ "description" \notin DOMAIN data["weather"][1]
                    \/ "icon" \notin DOMAIN data["weather"][1]
                THEN Raise("KeyError")
            ELSE Return([ city        |-> GetOpt(data, "name"),
                          temp        |-> Some(data["main"]["temp"]),
                          feels_like  |-> GetOpt(data["main"], "feels_like"),
                          humidity    |-> GetOpt(data["main"], "humidity"),
                          pressure    |-> GetOpt(data["main"], "pressure"),
                          description |-> Some(data["weather"][1]["description"]),
                          icon        |-> Some(data["weather"][1]["icon"]),
                          wind_speed  |-> GetOpt(Get(data, "wind", EmptyObj), "speed") ])

-----------------------------------------------------------------------------
(* app.py: get_forecast *)

Range(s) == {s[i] : i \in DOMAIN s}

\* [f(x) for x in s] for the positions kept by a filter, as a sequence of positions
RECURSIVE Positions(_, _)
Positions(n, keep) ==
    IF n = 0 THEN <<>>
    ELSE IF n \in keep THEN Append(Positions(n - 1, keep), n)
    ELSE Positions(n - 1, keep)

\* the samples that have a timestamp (dt is not None)
Stamped(list) == SelectSeq(list, LAMBDA item : "dt" \in DOMAIN item)

\* daily[date]: the samples of a date, in the order of the response
daily(list, offset, date) ==
    SelectSeq(Stamped(list), LAMBDA item : DateOf(item["dt"], offset) = date)

\* daily.keys()
dailyKeys(list, offset) ==
    {DateOf(item["dt"], offset) : item \in Range(Stamped(list))}

\* s[:n] for n >= 0
SliceTo(s, n) == SubSeq(s, 1, IF n < Len(s) THEN n ELSE Len(s))

\* days_sorted with the slice forgotten
days_sorted_unsliced(list, offset, n) == sorted(dailyKeys(list, offset))

\* days_sorted[:days]
days_sorted(list, offset, n) == SliceTo(sorted(dailyKeys(list, offset)), n)

temps(items) ==
    LET ps == Positions(Len(items), {i \in DOMAIN items : TruthyObj(items[i], "main")})
    IN  [k \in DOMAIN ps |-> items[ps[k]]["main"]["temp"]]

\* rains with the filter of temps applied to it
rains_with_temperature(items) ==
    LET ps == Positions(Len(items), {i \in DOMAIN items : TruthyObj(items[i], "main")})
    IN  [k \in DOMAIN ps |-> Get(Get(items[ps[k]], "rain", EmptyObj), "3h", 0)]

rains(items) ==
    [i \in DOMAIN items |-> Get(Get(items[i], "rain", EmptyObj), "3h", 0)]

descs(items) ==
    LET ps == Positions(Len(items), {i \in DOMAIN items : TruthyList(items[i], "weather")})
    IN  [k \in DOMAIN ps |-> items[ps[k]]["weather"][1]["description"]]

icons(items) ==
    LET ps == Positions(Len(items), {i \in DOMAIN items : TruthyList(items[i], "weather")})
    IN  [k \in DOMAIN ps |-> items[ps[k]]["weather"][1]["icon"]]

\* a subscript of lines 76-79 fails: x["main"]["temp"], x["weather"][0]["description"]
\* or x["weather"][0]["icon"] on a sample that has the object and not the field
RaisesKeyError(items) ==
    \E i \in DOMAIN items :
        \/ TruthyObj(items[i], "main") /\ "temp" \notin DOMAIN items[i]["main"]
        \/ /\ TruthyList(items[i], "weather")
           /\ \/ "description" \notin DOMAIN items[i]["weather"][1]
              \/ "icon" \notin DOMAIN items[i]["weather"][1]

min(s) == CHOOSE t \in Range(s) : \A u \in Range(s) : t <= u

max(s) == CHOOSE t \in Range(s) : \A u \in Range(s) : t >= u

RECURSIVE sum(_)
sum(s) == IF s = <<>> THEN 0 ELSE s[1] + sum(Tail(s))

Count(s, v) == Cardinality({i \in DOMAIN s : s[i] = v})

\* the keys of Counter(s): the distinct elements in the order of their first occurrence
CounterKeys(s) ==
    LET ps == Positions(Len(s), {i \in DOMAIN s : \A j \in 1..(i - 1) : s[j] # s[i]})
    IN  [k \in DOMAIN ps |-> s[ps[k]]]

\* most_common with ties going to the key counted last
most_common_last(s) ==
    LET ks == CounterKeys(s)
        i  == CHOOSE i \in DOMAIN ks :
                  /\ \A j \in DOMAIN ks : Count(s, ks[j]) <= Count(s, ks[i])
                  /\ \A j \in (i + 1)..Len(ks) : Count(s, ks[j]) < Count(s, ks[i])
    IN  ks[i]

\* Counter(s).most_common(1)[0][0]: the first key, in Counter order, of greatest count
most_common(s) ==
    LET ks == CounterKeys(s)
        i  == CHOOSE i \in DOMAIN ks :
                  /\ \A j \in DOMAIN ks : Count(s, ks[j]) <= Count(s, ks[i])
                  /\ \A j \in 1..(i - 1) : Count(s, ks[j]) < Count(s, ks[i])
    IN  ks[i]

\* Summary with min and max exchanged
Summary_swapped(d, items) ==
    [ date        |-> d,
      temp_min    |-> max(temps(items)),
      temp_max    |-> min(temps(items)),
      rain_mm     |-> sum(rains(items)),
      description |-> IF descs(items) # <<>> THEN most_common(descs(items)) ELSE "",
      icon        |-> IF icons(items) # <<>> THEN Some(most_common(icons(items))) ELSE None ]

\* the dict of lines 84-91
Summary(d, items) ==
    [ date        |-> d,
      temp_min    |-> min(temps(items)),
      temp_max    |-> max(temps(items)),
      rain_mm     |-> sum(rains(items)),
      description |-> IF descs(items) # <<>> THEN most_common(descs(items)) ELSE "",
      icon        |-> IF icons(items) # <<>> THEN Some(most_common(icons(items))) ELSE None ]

\* the loop of lines 74-91 over the selected dates, when no subscript fails
RECURSIVE Summaries(_, _, _)
Summaries(list, offset, selected) ==
    IF selected = <<>> THEN <<>>
    ELSE LET d     == Head(selected)
             items == daily(list, offset, d)
         IN  (IF temps(items) = <<>> THEN <<>> ELSE <<Summary(d, items)>>)
                 \o Summaries(list, offset, Tail(selected))

get_forecast(resp, offset, n) ==
    IF HttpOutcome(resp) # "none" THEN Raise(HttpOutcome(resp))
    ELSE IF resp.body # "object" THEN Raise("AttributeError")
    ELSE
        LET list     == Get(resp.data, "list", <<>>)
            selected == days_sorted(list, offset, n)
        IN  IF \E k \in DOMAIN selected : RaisesKeyError(daily(list, offset, selected[k]))
                THEN Raise("KeyError")
            ELSE Return(Summaries(list, offset, selected))

-----------------------------------------------------------------------------
(* What the weather provider may answer *)

MaxSamples == 3

MaxDays == 2

\* days: int = 5, the default the dashboard calls get_forecast with
DefaultDays == 5

\* offsets of the process's time zone: UTC and UTC+05:30
TzOffsets == {0, 19800}

\* 2024-02-28 21:00, 2024-02-29 21:00 and 2024-03-01 09:00 UTC: three dates in UTC,
\* two dates (02-29, 03-01, 03-01) in UTC+05:30
Timestamps == <<1709154000, 1709240400, 1709283600>>

Ts1 == Timestamps[1]

Ts2 == Timestamps[2]

Ts3 == Timestamps[3]

Failures ==
    { NoResponse,
      HttpResponse(404, "object", [cod |-> "404"]),
      HttpResponse(500, "text", EmptyObj),
      HttpResponse(200, "text", EmptyObj),
      HttpResponse(200, "array", EmptyObj) }

WeatherKeys == {"name", "sys", "main", "weather", "wind", "clouds", "rain", "dt"}

\* current-conditions bodies: every subset of the top-level keys, and under each
\* key an object with or without the field the projection reads
WeatherBodies ==
    { Restrict([ name    |-> "London",
                 sys     |-> s,
                 main    |-> m,
                 weather |-> w,
                 wind    |-> v,
                 clouds  |-> [all |-> 75],
                 rain    |-> r,
                 dt      |-> Ts2 ], ks) :
        ks \in SUBSET WeatherKeys,
        s \in { [country |-> "GB"],
                [country |-> "GB", sunrise |-> Ts1, sunset |-> Ts3] },
        m \in { [humidity |-> 80],
                [temp |-> 12, feels_like |-> 10, humidity |-> 80, pressure |-> 1012] },
        w \in { <<>>, <<EmptyObj>>, <<[description |-> "light rain", icon |-> "10d"]>> },
        v \in { [deg |-> 200], [speed |-> 4] },
        r \in { EmptyObj, "3h" :> 1, "1h" :> 2 } }

WeatherResponses ==
    Failures \cup {HttpResponse(200, "object", b) : b \in WeatherBodies}

SampleKeys == {"dt", "main", "rain", "weather"}

Clear == [description |-> "clear sky", icon |-> "01d"]

Rain == [description |-> "light rain", icon |-> "10d"]

Drizzle == [description |-> "clear sky", icon |-> "09d"]

Sample(t, m, r, w, ks) == Restrict([dt |-> t, main |-> m, rain |-> r, weather |-> w], ks)

\* samples that differ in timestamp and temperature; one has no timestamp
GroupSamples ==
    { Sample(t, m, EmptyObj, <<>>, {"dt", "main"}) :
        t \in {Ts1, Ts2, Ts3},
        m \in { [humidity |-> 80], [temp |-> 5], [temp |-> 12] } }
      \cup { Sample(Ts1, [temp |-> 5], EmptyObj, <<>>, {"main"}) }

\* samples that differ in rainfall; some have no temperature
RainSamples ==
    { Sample(t, [temp |-> 5], r, <<>>, ks) :
        t \in {Ts2, Ts3},
        r \in { "1h" :> 7, "3h" :> 1, "3h" :> 3 },
        ks \in {{"dt", "main"}, {"dt", "main", "rain"}} }
      \cup { Sample(t, EmptyObj, "3h" :> 3, <<>>, {"dt", "rain"}) : t \in {Ts2, Ts3} }

\* samples that differ in description and icon
WeatherSamples ==
    { Sample(t, [temp |-> 5], EmptyObj, w, ks) :
        t \in {Ts2, Ts3},
        w \in { <<>>, <<Clear>>, <<Rain>>, <<Drizzle>> },
        ks \in {{"dt", "main"}, {"dt", "main", "weather"}} }

\* samples with or without a temperature whose weather entry may lack its fields
BareSamples ==
    { Sample(t, [temp |-> 12], EmptyObj, w, ks) :
        t \in {Ts2, Ts3},
        w \in { <<EmptyObj>>, <<Clear>> },
        ks \in {{"dt"}, {"dt", "weather"}, {"dt", "main"}} }

SeqsUpTo(S, n) == UNION {[1..k -> S] : k \in 0..n}

ForecastLists ==
    SeqsUpTo(GroupSamples, MaxSamples) \cup SeqsUpTo(RainSamples, MaxSamples)
        \cup SeqsUpTo(WeatherSamples, MaxSamples) \cup SeqsUpTo(BareSamples, MaxSamples)

ForecastResponses ==
    Failures \cup {HttpResponse(200, "object", EmptyObj)}
        \cup {HttpResponse(200, "object", [list |-> l]) : l \in ForecastLists}

\* the forecast answers met by the dashboard run
AppForecastResponses ==
    Failures \cup
    { HttpResponse(200, "object", EmptyObj),
      HttpResponse(200, "object", [list |-> <<>>]),
      HttpResponse(200, "object",
          [list |-> << Sample(Ts2, [temp |-> 5], "3h" :> 1, <<Clear>>, SampleKeys),
                       Sample(Ts3, [temp |-> 12], EmptyObj, <<Rain>>, {"dt", "main", "weather"}) >>]),
      HttpResponse(200, "object",
          [list |-> << Sample(Ts2, [humidity |-> 80], EmptyObj, <<>>, {"dt", "main"}) >>]) }

-----------------------------------------------------------------------------
(* app.py: one run of the script, which Streamlit starts for every interaction *)

Shown(el, text) == [el |-> el, text |-> text]

Cities == {"", "London"}

\* KeyCheck with st.stop() forgotten
KeyCheck_no_stop(key) == "inputs"

\* lines 19-22: where the script goes after reading OPENWEATHER_API_KEY
KeyCheck(key) == IF ~TruthyStr(key) THEN "stopped" ELSE "inputs"

\* lines 16-22: page config, load_dotenv, the API_KEY check (st.error, st.stop)
AppStart ==
    /\ program = "app"
    /\ pc = "start"
    /\ pc' = KeyCheck(API_KEY)
    /\ ui' = IF ~TruthyStr(API_KEY)
                THEN Append(ui, Shown("error", "Missing OPENWEATHER_API_KEY"))
                ELSE ui
    /\ UNCHANGED <<program, API_KEY, city, tz, days, wresp, fresp, weather, forecast,
                   exc, calls, requests>>

\* lines 98-150: style, title, the city and unit inputs, and the prompt for a city
AppInputs ==
    /\ program = "app"
    /\ pc = "inputs"
    /\ \E c \in Cities :
          /\ city' = c
          /\ pc' = IF c = "" THEN "done" ELSE "get_weather"
          /\ ui' = IF c = ""
                      THEN ui \o <<Shown("title", ""), Shown("info", "Type a city name")>>
                      ELSE Append(ui, Shown("title", ""))
    /\ UNCHANGED <<program, API_KEY, tz, days, wresp, fresp, weather, forecast,
                   exc, calls, requests>>

\* FetchFailed with st.stop() forgotten
FetchFailed_no_stop(e, shown) ==
    [ pc |-> "render_current",
      ui |-> Append(shown, Shown("error", IF IsRequestException(e)
                                              THEN "Network / API error"
                                              ELSE "Error fetching weather")) ]

\* lines 156-161: both handlers show an error and call st.stop()
FetchFailed(e, shown) ==
    [ pc |-> "stopped",
      ui |-> Append(shown, Shown("error", IF IsRequestException(e)
                                              THEN "Network / API error"
                                              ELSE "Error fetching weather")) ]

\* line 154 within the try of lines 153-161
AppGetWeather ==
    /\ program = "app"
    /\ pc = "get_weather"
    /\ \E r \in WeatherResponses :
          LET out == get_weather(r)
          IN  /\ wresp' = r
              /\ exc' = out.exc
              /\ weather' = out.value
              /\ pc' = IF out.exc = "none" THEN "get_forecast"
                       ELSE FetchFailed(out.exc, ui).pc
              /\ ui' = IF out.exc = "none" THEN ui ELSE FetchFailed(out.exc, ui).ui
    /\ calls' = Append(calls, "get_weather")
    /\ requests' = Append(requests, "weather")
    /\ UNCHANGED <<program, API_KEY, city, tz, days, fresp, forecast>>

\* line 155 within the try of lines 153-161
AppGetForecast ==
    /\ program = "app"
    /\ pc = "get_forecast"
    /\ \E r \in AppForecastResponses :
          LET out == get_forecast(r, tz, days)
          IN  /\ fresp' = r
              /\ exc' = out.exc
              /\ forecast' = out.value
              /\ pc' = IF out.exc = "none" THEN "render_current"
                       ELSE FetchFailed(out.exc, ui).pc
              /\ ui' = IF out.exc = "none" THEN ui ELSE FetchFailed(out.exc, ui).ui
    /\ calls' = Append(calls, "get_forecast")
    /\ requests' = Append(requests, "forecast")
    /\ UNCHANGED <<program, API_KEY, city, tz, days, wresp, weather>>

\* lines 170-179: the sunrise and sunset texts
TimeText(o, offset) == IF TruthyInt(o) THEN FormatTime(o[1], offset) ELSE "N/A"

\* lines 163-223: header, current weather and details
AppRenderCurrent ==
    /\ program = "app"
    /\ pc = "render_current"
    /\ LET w == weather[1]
       IN  ui' = ui \o
               << Shown("header", ""),
                  Shown("caption", IF TruthyInt(w.dt) THEN "date_time" ELSE "N/A"),
                  Shown("temperature", IF w.temp # None THEN "temp" ELSE "N/A"),
                  Shown("details", ""),
                  Shown("rain_1h", ToString(w.rain_1h[1])),
                  Shown("sunrise", TimeText(w.sunrise, tz)),
                  Shown("sunset", TimeText(w.sunset, tz)) >>
    /\ pc' = "render_forecast"
    /\ UNCHANGED <<program, API_KEY, city, tz, days, wresp, fresp, weather, forecast,
                   exc, calls, requests>>

\* lines 225-267: forecast cards and the trend chart, or the notice that there is none
AppRenderForecast ==
    /\ program = "app"
    /\ pc = "render_forecast"
    /\ ui' = IF forecast[1] # <<>>
                THEN ui \o [i \in DOMAIN forecast[1] |-> Shown("card", "")]
                        \o <<Shown("chart", "")>>
                ELSE Append(ui, Shown("info", "No forecast available"))
    /\ pc' = "done"
    /\ UNCHANGED <<program, API_KEY, city, tz, days, wresp, fresp, weather, forecast,
                   exc, calls, requests>>

-----------------------------------------------------------------------------
(* fetch_weather.py run as a script *)

\* lines 6-7 and 29: the key is read, no check is made, the city is read
CliStart ==
    /\ program = "cli"
    /\ pc = "start"
    /\ \E c \in Cities : city' = c
    /\ pc' = "get_weather"
    /\ UNCHANGED <<program, API_KEY, tz, days, wresp, fresp, weather, forecast,
                   exc, calls, requests, ui>>

\* lines 30-39: the call of get_weather and what is printed
CliGetWeather ==
    /\ program = "cli"
    /\ pc = "get_weather"
    /\ \E r \in WeatherResponses :
          LET out == cli_get_weather(API_KEY, r)
          IN  /\ wresp' = IF ~TruthyStr(API_KEY) THEN wresp ELSE r
              /\ exc' = out.exc
              /\ weather' = out.value
              /\ ui' = Append(ui, IF out.exc = "none" THEN Shown("weather", "")
                                  ELSE IF out.exc = "HTTPError"
                                      THEN Shown("error", "City not found or API error")
                                  ELSE Shown("error", "Error"))
    /\ calls' = Append(calls, "get_weather")
    /\ requests' = IF ~TruthyStr(API_KEY) THEN requests ELSE Append(requests, "weather")
    /\ pc' = "done"
    /\ UNCHANGED <<program, API_KEY, city, tz, days, fresp, forecast>>

-----------------------------------------------------------------------------
(* get_forecast called on its own *)

ForecastCall ==
    /\ program = "forecast"
    /\ pc = "start"
    /\ \E r \in ForecastResponses :
          LET out == get_forecast(r, tz, days)
          IN  /\ fresp' = r
              /\ exc' = out.exc
              /\ forecast' = out.value
              /\ pc' = IF out.exc = "none" THEN "returned" ELSE "raised"
    /\ calls' = Append(calls, "get_forecast")
    /\ requests' = Append(requests, "forecast")
    /\ UNCHANGED <<program, API_KEY, city, tz, wresp, weather, days, ui>>

-----------------------------------------------------------------------------
(* Specifications *)

InitCommon ==
    /\ pc = "start"
    /\ city = ""
    /\ tz \in TzOffsets
    /\ wresp = NoResponse
    /\ fresp = NoResponse
    /\ weather = None
    /\ forecast = None
    /\ exc = "none"
    /\ calls = <<>>
    /\ requests = <<>>
    /\ ui = <<>>

\* the two scripts, with the credential unset, set to nothing, or set
Init ==
    /\ program \in {"app", "cli"}
    /\ API_KEY \in {None, Some(""), Some("key")}
    /\ days = DefaultDays
    /\ InitCommon

Next ==
    \/ AppStart
    \/ AppInputs
    \/ AppGetWeather
    \/ AppGetForecast
    \/ AppRenderCurrent
    \/ AppRenderForecast
    \/ CliStart
    \/ CliGetWeather

Spec == Init /\ [][Next]_vars

InitForecast ==
    /\ program = "forecast"
    /\ API_KEY = Some("key")
    /\ days \in 1..MaxDays
    /\ InitCommon

NextForecast == ForecastCall

SpecForecast == InitForecast /\ [][NextForecast]_vars

-----------------------------------------------------------------------------
(* Properties of get_forecast, under SpecForecast *)

\* the samples of the forecast response
Samples == Get(fresp.data, "list", <<>>)

\* the day number, in the process's time zone, of a timestamp
LocalDay(ts) == (ts + tz) \div SecondsPerDay

StampedAt == {i \in DOMAIN Samples : "dt" \in DOMAIN Samples[i]}

\* the positions of the samples of a date
SamplesOf(date) == {i \in StampedAt : DateOf(Samples[i]["dt"], tz) = date}

\* the distinct calendar days of the samples
SampleDays == {LocalDay(Samples[i]["dt"]) : i \in StampedAt}

\* the first `days` of them
SelectedDays == {d \in SampleDays : Cardinality({e \in SampleDays : e < d}) < days}

HasTemperature(x) == "main" \in DOMAIN x /\ "temp" \in DOMAIN x["main"]

Returned == program = "forecast" /\ pc = "returned"

\* C1: get_forecast returns at most min(N, D) summaries, where N is the number of
\* distinct calendar dates of the samples and D the day count, no two of them for
\* the same date, and in strictly ascending date order.
C1_AtMostMinDistinctAscending ==
    Returned =>
        LET res == forecast[1]
        IN  /\ Len(res) <= Cardinality(SampleDays)
            /\ Len(res) <= days
            /\ \A i, j \in DOMAIN res :
                  i < j =>
                      /\ res[i].date # res[j].date
                      /\ \A a \in SamplesOf(res[i].date), b \in SamplesOf(res[j].date) :
                            LocalDay(Samples[a]["dt"]) < LocalDay(Samples[b]["dt"])

\* the response has more dates than were asked for and a summary for each day asked for
C1_Witness ==
    /\ Returned
    /\ days >= 2
    /\ Cardinality(SampleDays) > days
    /\ Len(forecast[1]) = days

\* C2: for a successful response, no error is raised, and each of the first `days`
\* dates has a summary if and only if one of its samples carries a temperature;
\* no other date has one.
C2_EmittedIffTemperature ==
    (program = "forecast" /\ pc # "start" /\ HttpOutcome(fresp) = "none" /\ fresp.body = "object") =>
        /\ exc = "none"
        /\ LET res == forecast[1]
           IN  /\ \A d \in SelectedDays :
                     (\E k \in DOMAIN res :
                         \E i \in SamplesOf(res[k].date) : LocalDay(Samples[i]["dt"]) = d)
                     <=> (\E i \in StampedAt :
                             /\ LocalDay(Samples[i]["dt"]) = d
                             /\ HasTemperature(Samples[i]))
               /\ \A k \in DOMAIN res :
                     \E i \in SamplesOf(res[k].date) : LocalDay(Samples[i]["dt"]) \in SelectedDays

\* C2, where no subscript fails: a selected date with no temperature is dropped and
\* is not replaced by a later date.
C2_DroppedWhenReturned ==
    Returned =>
        LET res == forecast[1]
        IN  /\ \A d \in SelectedDays :
                  (\E k \in DOMAIN res :
                      \E i \in SamplesOf(res[k].date) : LocalDay(Samples[i]["dt"]) = d)
                  <=> (\E i \in StampedAt :
                          /\ LocalDay(Samples[i]["dt"]) = d
                          /\ HasTemperature(Samples[i]))
            /\ \A k \in DOMAIN res :
                  \E i \in SamplesOf(res[k].date) : LocalDay(Samples[i]["dt"]) \in SelectedDays

\* the positions, among the samples of a date, of those that have a weather field f
WithField(date, f) ==
    {i \in SamplesOf(date) :
        /\ "weather" \in DOMAIN Samples[i]
        /\ Len(Samples[i]["weather"]) > 0
        /\ f \in DOMAIN Samples[i]["weather"][1]}

FieldAt(i, f) == Samples[i]["weather"][1][f]

Occurrences(date, f, v) == Cardinality({i \in WithField(date, f) : FieldAt(i, f) = v})

FirstAt(date, f, v) ==
    CHOOSE i \in WithField(date, f) :
        /\ FieldAt(i, f) = v
        /\ \A j \in WithField(date, f) : FieldAt(j, f) = v => i <= j

\* v is the most frequent value of field f on a date, the first met among equals
MostFrequentFirst(date, f, v) ==
    /\ \E i \in WithField(date, f) : FieldAt(i, f) = v
    /\ \A j \in WithField(date, f) :
          /\ Occurrences(date, f, FieldAt(j, f)) <= Occurrences(date, f, v)
          /\ (FieldAt(j, f) # v /\ Occurrences(date, f, FieldAt(j, f)) = Occurrences(date, f, v))
                => FirstAt(date, f, v) < j

\* C4: the description of a summary is the most frequent description of the date's
\* samples that have one, the first met when several are as frequent; the icon
\* follows the same rule.
C4_MostFrequentFirstMet ==
    Returned =>
        \A k \in DOMAIN forecast[1] :
            LET s == forecast[1][k]
            IN  /\ WithField(s.date, "description") # {}
                    => MostFrequentFirst(s.date, "description", s.description)
                /\ WithField(s.date, "icon") # {}
                    => /\ s.icon # None
                       /\ MostFrequentFirst(s.date, "icon", s.icon[1])

\* on one date the description chosen is more frequent than the one met first, and
\* the icon chosen is the first met of several that are as frequent
C4_Witness ==
    /\ Returned
    /\ \E k \in DOMAIN forecast[1] :
          LET s == forecast[1][k]
          IN  /\ \E i \in WithField(s.date, "description") :
                     /\ FieldAt(i, "description") # s.description
                     /\ i < FirstAt(s.date, "description", s.description)
              /\ s.icon # None
              /\ \E j \in WithField(s.date, "icon") :
                     /\ FieldAt(j, "icon") # s.icon[1]
                     /\ Occurrences(s.date, "icon", FieldAt(j, "icon"))
                           = Occurrences(s.date, "icon", s.icon[1])

\* the 3-hour rainfall of a sample, 0 when it has none
Rain3h(x) ==
    IF "rain" \in DOMAIN x /\ "3h" \in DOMAIN x["rain"] THEN x["rain"]["3h"] ELSE 0

RECURSIVE RainOver(_)
RainOver(S) ==
    IF S = {} THEN 0
    ELSE LET i == CHOOSE i \in S : TRUE
         IN  Rain3h(Samples[i]) + RainOver(S \ {i})

\* C5: rain_mm of a summary is the sum of the 3-hour rainfall of all samples of its
\* date, also of those with no temperature, a sample with no rainfall counting 0;
\* it is not negative.
C5_RainIsSumOfAllSamples ==
    Returned =>
        \A k \in DOMAIN forecast[1] :
            /\ forecast[1][k].rain_mm = RainOver(SamplesOf(forecast[1][k].date))
            /\ forecast[1][k].rain_mm >= 0

\* a date with rain on a sample that has no temperature, and a sample with no rainfall
C5_Witness ==
    /\ Returned
    /\ \E k \in DOMAIN forecast[1] :
          \E a, b \in SamplesOf(forecast[1][k].date) :
              /\ ~HasTemperature(Samples[a])
              /\ Rain3h(Samples[a]) > 0
              /\ "rain" \notin DOMAIN Samples[b]
              /\ forecast[1][k].rain_mm > Rain3h(Samples[a])

\* C8: temp_min <= temp_max in every summary, and both are temperatures of samples
\* of the summary's own date.
C8_MinAtMostMaxOfOwnDate ==
    Returned =>
        \A k \in DOMAIN forecast[1] :
            LET s == forecast[1][k]
            IN  /\ s.temp_min <= s.temp_max
                /\ \E i \in SamplesOf(s.date) :
                      HasTemperature(Samples[i]) /\ Samples[i]["main"]["temp"] = s.temp_min
                /\ \E i \in SamplesOf(s.date) :
                      HasTemperature(Samples[i]) /\ Samples[i]["main"]["temp"] = s.temp_max

\* a summary of a date with two temperatures, next to a summary of another date
C8_Witness ==
    /\ Returned
    /\ Len(forecast[1]) >= 2
    /\ \E k \in DOMAIN forecast[1] : forecast[1][k].temp_min < forecast[1][k].temp_max

-----------------------------------------------------------------------------
(* Properties of get_weather and of the scripts, under Spec *)

\* get_weather of app.py was called and its response is a successful JSON object
WeatherAnswered ==
    /\ program = "app"
    /\ calls # <<>>
    /\ HttpOutcome(wresp) = "none"
    /\ wresp.body = "object"

\* the object under key k of the body, or its field f, is missing
Missing(k, f) == k \notin DOMAIN wresp.data \/ f \notin DOMAIN wresp.data[k]

\* the weather list, or its first entry, or the entry's field f, is missing
MissingWeather(f) ==
    \/ "weather" \notin DOMAIN wresp.data
    \/ Len(wresp.data["weather"]) = 0
    \/ f \notin DOMAIN wresp.data["weather"][1]

\* C3: for a successful JSON-object response get_weather returns a record and does
\* not raise, whichever optional object or field is missing, the empty weather list
\* included; every field whose source is missing is null, except rain_1h which is 0.
C3_ProjectionNeverRaises ==
    WeatherAnswered =>
        /\ weather # None
        /\ LET w == weather[1]
           IN  /\ "name" \notin DOMAIN wresp.data => w.city = None
               /\ Missing("sys", "country") => w.country = None
               /\ Missing("main", "temp") => w.temp = None
               /\ Missing("main", "feels_like") => w.feels_like = None
               /\ Missing("main", "humidity") => w.humidity = None
               /\ Missing("main", "pressure") => w.pressure = None
               /\ MissingWeather("description") => w.description = None
               /\ MissingWeather("icon") => w.icon = None
               /\ Missing("wind", "speed") => w.wind_speed = None
               /\ Missing("clouds", "all") => w.clouds = None
               /\ Missing("rain", "1h") => w.rain_1h = Some(0)
               /\ Missing("sys", "sunrise") => w.sunrise = None
               /\ Missing("sys", "sunset") => w.sunset = None
               /\ "dt" \notin DOMAIN wresp.data => w.dt = None

C10_MissingSunriseShownAsNA ==
    (WeatherAnswered /\ Missing("sys", "sunrise")) =>
        /\ weather # None
        /\ weather[1].sunrise = None
        /\ \A i \in DOMAIN ui : ui[i].el = "sunrise" => ui[i].text = "N/A"

\* C10, where get_weather returns: the null sunrise and the "N/A" on the page.
C10_NullSunriseWhenReturned ==
    (WeatherAnswered /\ weather # None /\ Missing("sys", "sunrise")) =>
        /\ weather[1].sunrise = None
        /\ \A i \in DOMAIN ui : ui[i].el = "sunrise" => ui[i].text = "N/A"
        /\ pc = "done" => \E i \in DOMAIN ui : ui[i].el = "sunrise"

\* the elements of the current conditions, the forecast cards and the chart
Rendered ==
    {"header", "caption", "temperature", "details", "rain_1h", "sunrise", "sunset",
     "card", "chart"}

\* C6: with a city entered, when the current-conditions fetch or the forecast fetch
\* fails the script shows an error and stops: it has rendered and will render no
\* current-conditions element, forecast card or chart.
C6_FailedFetchStopsRendering ==
    (program = "app" /\ city # "" /\ exc # "none") =>
        /\ pc = "stopped"
        /\ ~ENABLED Next
        /\ ui[Len(ui)].el = "error"
        /\ \A i \in DOMAIN ui : ui[i].el \notin Rendered

\* the forecast fetch failed after the current-conditions fetch had succeeded
C6_Witness ==
    /\ program = "app"
    /\ city # ""
    /\ weather # None
    /\ calls = <<"get_weather", "get_forecast">>
    /\ exc # "none"

\* C7: with the credential missing, no fetch operation is called and no HTTP request
\* is issued: the process stops at startup.
C7_NoFetchWithoutCredential ==
    ~TruthyStr(API_KEY) =>
        /\ calls = <<>>
        /\ requests = <<>>

\* C7 as amended: with the credential missing no HTTP request is issued; app.py
\* stops at startup, before any fetch operation is called; fetch_weather.py calls
\* get_weather, which raises RuntimeError before it issues the request.
C7_NoRequestWithoutCredential ==
    ~TruthyStr(API_KEY) =>
        /\ requests = <<>>
        /\ program = "app" =>
              /\ calls = <<>>
              /\ pc \in {"start", "stopped"}
              /\ pc = "stopped" => ui = <<Shown("error", "Missing OPENWEATHER_API_KEY")>>
        /\ (program = "cli" /\ calls # <<>>) =>
              /\ calls = <<"get_weather">>
              /\ exc = "RuntimeError"
              /\ weather = None

\* app.py has stopped at startup for want of the credential
C7_Witness ==
    /\ ~TruthyStr(API_KEY)
    /\ program = "app"
    /\ pc = "stopped"

====
